---- MODULE Spec2Model ----
(***************************************************************************)
(* Reddit-Tracker: the ingestion upserts of reddit_monitor.py and the      *)
(* reconciliation of two databases by merge_data.py.                       *)
(*                                                                         *)
(* A database is a file with four tables (account_snapshots, posts,        *)
(* comments, score_history); a table is the sequence of its rows in rowid  *)
(* order.                                                                  *)
(* A nullable value is NULL (Python None, SQL NULL) or Some(v).            *)
(* CURRENT_TIMESTAMP has a resolution of one second: it is the value of    *)
(* clock, and several operations may fall on the same value.               *)
(***************************************************************************)
EXTENDS Integers, Sequences, FiniteSets, TLC

VARIABLES db, clock, nsaves, nmerges, last, prev, pc, ncycles

vars == <<db, clock, nsaves, nmerges, last, prev, pc, ncycles>>

\* Bounds of the exploration.
MaxClock == 1
MaxSaves == 2
MaxMerges == 1
MaxBatch == 2
MaxCycles == 1

NULL == <<>>
Some(v) == <<v>>

DBs == {"A", "B"}
Users == {"u1", "u2"}

\* dict.get(key): None when the key is missing.
Get(d, k) == IF k \in DOMAIN d THEN d[k] ELSE NULL

\* dict.get(key, default).
GetDefault(d, k, dflt) == IF k \in DOMAIN d THEN d[k] ELSE dflt

\* Python truthiness of a stored timestamp: None is false, and the text of a
\* timestamp ('YYYY-MM-DD HH:MM:SS', here its seconds) is never empty.
Truthy(v) == v # NULL

\* datetime.fromtimestamp(t).isoformat(): a text, not the number it came from.
IsoFormat(t) == [iso |-> t]

Min(S) == CHOOSE x \in S : \A y \in S : x <= y

\* A database file: status is "db" for a database with the four tables of
\* init_database, "invalid" for a file without them (another schema, not a
\* database at all), "missing" when no file has the path.
EmptyData ==
  [status |-> "db", snaps |-> <<>>, posts |-> <<>>, comments |-> <<>>, hist |-> <<>>]

----------------------------------------------------------------------------
(* Payloads of the upstream API.  title stands for the content columns     *)
(* (subreddit, title, selftext, url, local_image_path, is_self, over_18,   *)
(* permalink), body for those of a comment.                                *)

PostPayloads ==
  { [id |-> Some("p1"), score |-> Some(1), upvote_ratio |-> Some(1), num_comments |-> Some(3),
     title |-> "a", created_utc |-> 1],
    [id |-> Some("p1"), score |-> Some(2), upvote_ratio |-> Some(2), num_comments |-> Some(4),
     title |-> "b", created_utc |-> 2],
    [id |-> Some("p1"), upvote_ratio |-> Some(1), num_comments |-> Some(3),
     title |-> "a", created_utc |-> 1],
    [id |-> Some("p2"), score |-> Some(1), upvote_ratio |-> Some(1), num_comments |-> Some(3),
     title |-> "a", created_utc |-> 1],
    [id |-> Some(""), score |-> Some(1), upvote_ratio |-> Some(1), num_comments |-> Some(3),
     title |-> "a", created_utc |-> 1],
    [score |-> Some(1), upvote_ratio |-> Some(1), num_comments |-> Some(3),
     title |-> "a", created_utc |-> 1] }

CommentPayloads ==
  { [id |-> Some("c1"), score |-> Some(1), body |-> "a", created_utc |-> 1],
    [id |-> Some("c1"), score |-> Some(2), body |-> "b", created_utc |-> 2],
    [id |-> Some("c1"), body |-> "a", created_utc |-> 1],
    [score |-> Some(1), body |-> "a", created_utc |-> 1] }

AboutPayloads == { [total_karma |-> 5], [total_karma |-> 7] }

Batches(P) == UNION { [1..n -> P] : n \in 1..MaxBatch }

----------------------------------------------------------------------------
(* reddit_monitor.py                                                       *)

HistRow(kind, id, score, ts) ==
  [item_type |-> kind, item_id |-> id, score |-> score, timestamp |-> Some(ts)]

\* SELECT ... WHERE post_id = ? / comment_id = ?, fetchone(): the first row
\* in rowid order, 0 when there is none.  NULL = NULL matches nothing.
FindItem(rows, id) ==
  LET S == { i \in 1..Len(rows) : id # NULL /\ rows[i].item_id = id }
  IN  IF S = {} THEN 0 ELSE Min(S)

\* if old_score != new_score, with a mutant that logs every observation.
ScoreChangedAlways(old_score, new_score) == TRUE

ScoreChanged(old_score, new_score) == old_score # new_score

\* UPDATE posts SET score, upvote_ratio, num_comments, last_updated, with a
\* mutant that refreshes the content columns too.
UpdatedPostRowAll(old, post, new_score, ts) ==
  [old EXCEPT !.score = new_score,
              !.upvote_ratio = Get(post, "upvote_ratio"),
              !.num_comments = Get(post, "num_comments"),
              !.content = Get(post, "title"),
              !.last_updated = Some(ts)]

\* Mutant: an observation that changes nothing does not touch the row.
UpdatedPostRowIfChanged(old, post, new_score, ts) ==
  IF old.score = new_score THEN old
  ELSE [old EXCEPT !.score = new_score,
                   !.upvote_ratio = Get(post, "upvote_ratio"),
                   !.num_comments = Get(post, "num_comments"),
                   !.last_updated = Some(ts)]

UpdatedPostRow(old, post, new_score, ts) ==
  [old EXCEPT !.score = new_score,
              !.upvote_ratio = Get(post, "upvote_ratio"),
              !.num_comments = Get(post, "num_comments"),
              !.last_updated = Some(ts)]

\* UPDATE comments SET score, last_updated.
UpdatedCommentRow(old, comment, new_score, ts) ==
  [old EXCEPT !.score = new_score, !.last_updated = Some(ts)]

\* One iteration of the loop of save_posts; ts is CURRENT_TIMESTAMP, which
\* the statements of one call read as one value.
\* [ok |-> FALSE] when a statement raises (NOT NULL constraint on post_id).
UpsertPost(t, username, post, ts) ==
  LET post_id == Get(post, "id")
      k == FindItem(t.posts, post_id)
  IN  IF k > 0
      THEN LET old_score == t.posts[k].score
               new_score == GetDefault(post, "score", Some(0))
               row == UpdatedPostRow(t.posts[k], post, new_score, ts)
           IN  [ok |-> TRUE,
                data |-> [t EXCEPT !.posts[k] = row,
                                   !.hist = IF ScoreChanged(old_score, new_score)
                                            THEN Append(@, HistRow("post", post_id, new_score, ts))
                                            ELSE @]]
      ELSE IF post_id = NULL
      THEN [ok |-> FALSE, data |-> t]
      ELSE LET row == [item_id |-> post_id, username |-> username,
                       content |-> Get(post, "title"),
                       score |-> Get(post, "score"),
                       upvote_ratio |-> Get(post, "upvote_ratio"),
                       num_comments |-> Get(post, "num_comments"),
                       created_utc |-> IsoFormat(GetDefault(post, "created_utc", 0)),
                       first_seen |-> Some(ts), last_updated |-> Some(ts)]
           IN  [ok |-> TRUE,
                data |-> [t EXCEPT !.posts = Append(@, row),
                                   !.hist = Append(@, HistRow("post", post_id,
                                                   GetDefault(post, "score", Some(0)), ts))]]

\* One iteration of the loop of save_comments.
UpsertComment(t, username, comment, ts) ==
  LET comment_id == Get(comment, "id")
      k == FindItem(t.comments, comment_id)
  IN  IF k > 0
      THEN LET old_score == t.comments[k].score
               new_score == GetDefault(comment, "score", Some(0))
               row == UpdatedCommentRow(t.comments[k], comment, new_score, ts)
           IN  [ok |-> TRUE,
                data |-> [t EXCEPT !.comments[k] = row,
                                   !.hist = IF ScoreChanged(old_score, new_score)
                                            THEN Append(@, HistRow("comment", comment_id, new_score, ts))
                                            ELSE @]]
      ELSE IF comment_id = NULL
      THEN [ok |-> FALSE, data |-> t]
      ELSE LET row == [item_id |-> comment_id, username |-> username,
                       content |-> Get(comment, "body"),
                       score |-> Get(comment, "score"),
                       created_utc |-> IsoFormat(GetDefault(comment, "created_utc", 0)),
                       first_seen |-> Some(ts), last_updated |-> Some(ts)]
           IN  [ok |-> TRUE,
                data |-> [t EXCEPT !.comments = Append(@, row),
                                   !.hist = Append(@, HistRow("comment", comment_id,
                                                   GetDefault(comment, "score", Some(0)), ts))]]

Upsert(kind, t, username, item, ts) ==
  IF kind = "post" THEN UpsertPost(t, username, item, ts)
                   ELSE UpsertComment(t, username, item, ts)

\* The tables of the connection after the first n iterations of the loop
\* (uncommitted), or ok = FALSE once an iteration has raised.
RECURSIVE LoopState(_, _, _, _, _, _)
LoopState(kind, t, username, items, n, ts) ==
  IF n = 0 THEN [ok |-> TRUE, data |-> t]
  ELSE LET before == LoopState(kind, t, username, items, n - 1, ts)
       IN  IF before.ok THEN Upsert(kind, before.data, username, items[n], ts)
                        ELSE before

\* save_posts / save_comments: the loop, then commit.  An exception leaves
\* the function before conn.commit(): the open transaction is rolled back.
SaveItems(kind, t, username, items, ts) ==
  LET r == LoopState(kind, t, username, items, Len(items), ts)
  IN  IF r.ok THEN r ELSE [ok |-> FALSE, data |-> t]

\* save_account_snapshot: an unconditional INSERT.
SnapshotRow(username, data, ts) ==
  [username |-> username, timestamp |-> Some(ts),
   total_karma |-> GetDefault(data, "total_karma", 0), raw_data |-> data]

ZeroStats ==
  [account_snapshots |-> [added |-> 0, updated |-> 0, skipped |-> 0],
   posts |-> [added |-> 0, updated |-> 0, skipped |-> 0],
   comments |-> [added |-> 0, updated |-> 0, skipped |-> 0],
   score_history |-> [added |-> 0, updated |-> 0, skipped |-> 0]]

Op(name, src, d, user, items, ok, stats) ==
  [op |-> name, src |-> src, db |-> d, user |-> user, items |-> items,
   ok |-> ok, ts |-> clock, stats |-> stats]

SaveAccountSnapshot(d, u, data) ==
  /\ nsaves < MaxSaves
  /\ db' = [db EXCEPT ![d].snaps = Append(@, SnapshotRow(u, data, clock))]
  /\ nsaves' = nsaves + 1
  /\ last' = Op("save_account_snapshot", d, d, u, <<data>>, TRUE, ZeroStats)
  /\ prev' = db
  /\ UNCHANGED <<clock, nmerges, pc, ncycles>>

SavePosts(d, u, posts) ==
  /\ nsaves < MaxSaves
  /\ LET r == SaveItems("post", db[d], u, posts, clock)
     IN  /\ db' = [db EXCEPT ![d] = r.data]
         /\ last' = Op("save_posts", d, d, u, posts, r.ok, ZeroStats)
  /\ nsaves' = nsaves + 1
  /\ prev' = db
  /\ UNCHANGED <<clock, nmerges, pc, ncycles>>

SaveComments(d, u, comments) ==
  /\ nsaves < MaxSaves
  /\ LET r == SaveItems("comment", db[d], u, comments, clock)
     IN  /\ db' = [db EXCEPT ![d] = r.data]
         /\ last' = Op("save_comments", d, d, u, comments, r.ok, ZeroStats)
  /\ nsaves' = nsaves + 1
  /\ prev' = db
  /\ UNCHANGED <<clock, nmerges, pc, ncycles>>

----------------------------------------------------------------------------
(* merge_data.py: merge_databases(source, target), in place.               *)

Bump(stats, table, what) == [stats EXCEPT ![table][what] = @ + 1]

\* SELECT id FROM account_snapshots WHERE username = ? AND timestamp = ?
HasSnapshot(rows, username, timestamp) ==
  \E i \in 1..Len(rows) :
     /\ timestamp # NULL
     /\ rows[i].username = username
     /\ rows[i].timestamp = timestamp

\* SELECT id FROM score_history WHERE item_type = ? AND item_id = ? AND timestamp = ?
HasHistory(rows, item_type, item_id, timestamp) ==
  \E i \in 1..Len(rows) :
     /\ timestamp # NULL /\ item_id # NULL
     /\ rows[i].item_type = item_type
     /\ rows[i].item_id = item_id
     /\ rows[i].timestamp = timestamp

\* The body of the loop over the source's account_snapshots, for one row.
\* m is [data |-> the target's tables, stats |-> the counts so far].
\* Mutant: a colliding row replaces the target's.
MergeSnapshotRowReplace(m, row) ==
  IF ~HasSnapshot(m.data.snaps, row.username, row.timestamp)
  THEN [data |-> [m.data EXCEPT !.snaps = Append(@, row)],
        stats |-> Bump(m.stats, "account_snapshots", "added")]
  ELSE [data |-> [m.data EXCEPT !.snaps =
                    [i \in 1..Len(@) |->
                       IF @[i].username = row.username /\ @[i].timestamp = row.timestamp
                       THEN row ELSE @[i]]],
        stats |-> Bump(m.stats, "account_snapshots", "skipped")]

\* Mutant: a colliding row is passed over without being counted.
MergeSnapshotRowUncounted(m, row) ==
  IF ~HasSnapshot(m.data.snaps, row.username, row.timestamp)
  THEN [data |-> [m.data EXCEPT !.snaps = Append(@, row)],
        stats |-> Bump(m.stats, "account_snapshots", "added")]
  ELSE m

MergeSnapshotRow(m, row) ==
  IF ~HasSnapshot(m.data.snaps, row.username, row.timestamp)
  THEN [data |-> [m.data EXCEPT !.snaps = Append(@, row)],
        stats |-> Bump(m.stats, "account_snapshots", "added")]
  ELSE [m EXCEPT !.stats = Bump(@, "account_snapshots", "skipped")]

\* Python's row["last_updated"] > existing["last_updated"] on two texts
\* 'YYYY-MM-DD HH:MM:SS': the order of the seconds they denote.  Mutants:
\* a comparison that is not strict, and none at all (the source wins).
NewerOrEqual(a, b) == a[1] >= b[1]

SourceWins(a, b) == TRUE

Newer(a, b) == a[1] > b[1]

\* INSERT INTO posts / comments (...) VALUES (...): every column of the
\* source row but its rowid.  Mutant: first_seen and last_updated left to
\* their default, the time of the merge.
InsertedRowFresh(row) == [row EXCEPT !.first_seen = Some(clock), !.last_updated = Some(clock)]

InsertedRow(row) == row

\* The body of the loop over the source's posts, for one row.  Mutant: the
\* update takes the newer record's metrics and leaves last_updated.
MergePostRowStale(m, row) ==
  LET k == FindItem(m.data.posts, row.item_id)
  IN  IF k = 0
      THEN [data |-> [m.data EXCEPT !.posts = Append(@, InsertedRow(row))],
            stats |-> Bump(m.stats, "posts", "added")]
      ELSE IF Truthy(row.last_updated) /\ Truthy(m.data.posts[k].last_updated)
      THEN IF Newer(row.last_updated, m.data.posts[k].last_updated)
           THEN [data |-> [m.data EXCEPT !.posts[k] =
                             [@ EXCEPT !.score = row.score,
                                       !.upvote_ratio = row.upvote_ratio,
                                       !.num_comments = row.num_comments]],
                 stats |-> Bump(m.stats, "posts", "updated")]
           ELSE [m EXCEPT !.stats = Bump(@, "posts", "skipped")]
      ELSE [m EXCEPT !.stats = Bump(@, "posts", "skipped")]

MergePostRow(m, row) ==
  LET k == FindItem(m.data.posts, row.item_id)
  IN  IF k = 0
      THEN [data |-> [m.data EXCEPT !.posts = Append(@, InsertedRow(row))],
            stats |-> Bump(m.stats, "posts", "added")]
      ELSE IF Truthy(row.last_updated) /\ Truthy(m.data.posts[k].last_updated)
      THEN IF Newer(row.last_updated, m.data.posts[k].last_updated)
           THEN [data |-> [m.data EXCEPT !.posts[k] =
                             [@ EXCEPT !.score = row.score,
                                       !.upvote_ratio = row.upvote_ratio,
                                       !.num_comments = row.num_comments,
                                       !.last_updated = row.last_updated]],
                 stats |-> Bump(m.stats, "posts", "updated")]
           ELSE [m EXCEPT !.stats = Bump(@, "posts", "skipped")]
      ELSE [m EXCEPT !.stats = Bump(@, "posts", "skipped")]

\* The body of the loop over the source's comments, for one row.
MergeCommentRow(m, row) ==
  LET k == FindItem(m.data.comments, row.item_id)
  IN  IF k = 0
      THEN [data |-> [m.data EXCEPT !.comments = Append(@, InsertedRow(row))],
            stats |-> Bump(m.stats, "comments", "added")]
      ELSE IF Truthy(row.last_updated) /\ Truthy(m.data.comments[k].last_updated)
      THEN IF Newer(row.last_updated, m.data.comments[k].last_updated)
           THEN [data |-> [m.data EXCEPT !.comments[k] =
                             [@ EXCEPT !.score = row.score,
                                       !.last_updated = row.last_updated]],
                 stats |-> Bump(m.stats, "comments", "updated")]
           ELSE [m EXCEPT !.stats = Bump(@, "comments", "skipped")]
      ELSE [m EXCEPT !.stats = Bump(@, "comments", "skipped")]

\* The body of the loop over the source's score_history, for one row.
\* Mutant: the pass inserts nothing.
MergeHistoryRowNone(m, row) ==
  [m EXCEPT !.stats = Bump(@, "score_history", "skipped")]

MergeHistoryRow(m, row) ==
  IF ~HasHistory(m.data.hist, row.item_type, row.item_id, row.timestamp)
  THEN [data |-> [m.data EXCEPT !.hist = Append(@, row)],
        stats |-> Bump(m.stats, "score_history", "added")]
  ELSE [m EXCEPT !.stats = Bump(@, "score_history", "skipped")]

MergeRow(table, m, row) ==
  CASE table = "account_snapshots" -> MergeSnapshotRow(m, row)
    [] table = "posts" -> MergePostRow(m, row)
    [] table = "comments" -> MergeCommentRow(m, row)
    [] OTHER -> MergeHistoryRow(m, row)

\* for row in source_cur.fetchall(): the first n rows of one source table.
RECURSIVE MergeLoop(_, _, _, _)
MergeLoop(table, m, rows, n) ==
  IF n = 0 THEN m
  ELSE MergeRow(table, MergeLoop(table, m, rows, n - 1), rows[n])

\* The four passes in the order of the code, then commit.
MergeDatabases(source, target) ==
  LET m0 == [data |-> target, stats |-> ZeroStats]
      m1 == MergeLoop("account_snapshots", m0, source.snaps, Len(source.snaps))
      m2 == MergeLoop("posts", m1, source.posts, Len(source.posts))
      m3 == MergeLoop("comments", m2, source.comments, Len(source.comments))
  IN  MergeLoop("score_history", m3, source.hist, Len(source.hist))

Merge(s, t) ==
  /\ nmerges < MaxMerges
  /\ LET m == MergeDatabases(db[s], db[t])
     IN  /\ db' = [db EXCEPT ![t] = m.data]
         /\ last' = Op("merge", s, t, "u1", <<>>, TRUE, m.stats)
  /\ nmerges' = nmerges + 1
  /\ prev' = db
  /\ UNCHANGED <<clock, nsaves, pc, ncycles>>

Tick ==
  /\ clock < MaxClock
  /\ clock' = clock + 1
  /\ UNCHANGED <<db, nsaves, nmerges, last, prev, pc, ncycles>>

Init ==
  /\ db = [d \in DBs |-> EmptyData]
  /\ clock = 0
  /\ nsaves = 0
  /\ nmerges = 0
  /\ last = Op("init", "A", "A", "u1", <<>>, TRUE, ZeroStats)
  /\ prev = db
  /\ pc = "about"
  /\ ncycles = 0

\* The functions of the two programs called in any order, on either
\* database; no scheduler runs.
Next ==
  \/ \E d \in DBs, u \in Users, data \in AboutPayloads : SaveAccountSnapshot(d, u, data)
  \/ \E d \in DBs, u \in Users, posts \in Batches(PostPayloads) : SavePosts(d, u, posts)
  \/ \E d \in DBs, u \in Users, comments \in Batches(CommentPayloads) : SaveComments(d, u, comments)
  \/ \E s \in DBs, t \in DBs : Merge(s, t)
  \/ Tick

Spec == Init /\ [][Next]_vars

----------------------------------------------------------------------------
(* merge_databases applied to database files as given on the command       *)
(* line.  The schema lets last_updated be NULL (a row written by another   *)
(* tool), and the merge tests for it; ingestion never stores one.          *)

InputStamps == {NULL, Some(0), Some(1)}

InputScores == {Some(1), Some(2)}

InputRow(kind, id, score, stamp) ==
  IF kind = "post"
  THEN [item_id |-> Some(id), username |-> "u1", content |-> "a", score |-> score,
        upvote_ratio |-> score, num_comments |-> score, created_utc |-> IsoFormat(1),
        first_seen |-> Some(0), last_updated |-> stamp]
  ELSE [item_id |-> Some(id), username |-> "u1", content |-> "a", score |-> score,
        created_utc |-> IsoFormat(1), first_seen |-> Some(0), last_updated |-> stamp]

InputPostTables ==
  {<<>>}
    \cup { <<InputRow("post", "p1", sc, st)>> : sc \in InputScores, st \in InputStamps }
    \cup { <<InputRow("post", "p2", Some(1), NULL), InputRow("post", "p1", sc, st)>> :
             sc \in InputScores, st \in InputStamps }

InputCommentTables ==
  {<<>>} \cup { <<InputRow("comment", "c1", sc, st)>> : sc \in InputScores, st \in InputStamps }

InputData ==
  { [status |-> "db", snaps |-> <<>>, posts |-> ps, comments |-> cs, hist |-> <<>>] :
      ps \in InputPostTables, cs \in InputCommentTables }

InitMerge ==
  /\ db \in [DBs -> InputData]
  /\ clock = 0
  /\ nsaves = 0
  /\ nmerges = 0
  /\ last = Op("init", "A", "A", "u1", <<>>, TRUE, ZeroStats)
  /\ prev = db
  /\ pc = "about"
  /\ ncycles = 0

NextMerge == \E s \in DBs, t \in DBs : Merge(s, t)

SpecMerge == InitMerge /\ [][NextMerge]_vars

----------------------------------------------------------------------------
(* The tracker of this machine writes to DB_PATH, here database "A", and    *)
(* merges with a database file another tracker wrote ("B").  The           *)
(* timestamps of that file are CURRENT_TIMESTAMP as the other machine read *)
(* it: nothing relates them to the clock of this one.                      *)

DB_PATH == "A"

\* The values the clock of the other machine had when it wrote the file:
\* that of this machine's clock, or ahead of it.
ForeignClock == {0, MaxClock + 1}

\* The files a tracker writes in one call of save_posts on a new database.
ImportedFiles ==
  { SaveItems("post", EmptyData, "u1", <<p>>, ts).data :
      p \in { q \in PostPayloads : Get(q, "id") = Some("p1") /\ Get(q, "score") = Some(1) },
      ts \in ForeignClock }

InitImport ==
  /\ db \in { [d \in DBs |-> IF d = DB_PATH THEN EmptyData ELSE f] : f \in ImportedFiles }
  /\ clock = 0
  /\ nsaves = 0
  /\ nmerges = 0
  /\ last = Op("init", "A", "A", "u1", <<>>, TRUE, ZeroStats)
  /\ prev = db
  /\ pc = "about"
  /\ ncycles = 0

NextImport ==
  \/ \E u \in Users, data \in AboutPayloads : SaveAccountSnapshot(DB_PATH, u, data)
  \/ \E u \in Users, posts \in Batches(PostPayloads) : SavePosts(DB_PATH, u, posts)
  \/ \E u \in Users, comments \in Batches(CommentPayloads) : SaveComments(DB_PATH, u, comments)
  \/ \E s \in DBs, t \in DBs : Merge(s, t)
  \/ Tick

SpecImport == InitImport /\ [][NextImport]_vars

----------------------------------------------------------------------------
(* reddit_monitor.py as a process: run_scheduler(username) runs            *)
(* monitor_user at once and then whenever the job is due.  pc is the       *)
(* position of the process: "about", "sleep1", "posts", "sleep2",          *)
(* "comments" inside monitor_user, "idle" in the loop of run_scheduler,    *)
(* "stopped" after Ctrl+C, "terminated" after an exception nothing caught. *)

Username == "u1"

\* fetch_user_about: the profile, or None when the request failed.
AboutResponses == {NULL} \cup { Some(data) : data \in AboutPayloads }

\* fetch_user_posts / fetch_user_comments: the children of the listing,
\* [] when the request failed.
Responses(P) == {<<>>} \cup Batches(P)

\* Mutant: the cycle goes on to the posts when the profile fetch failed.
FetchAboutContinues(about) ==
  /\ pc = "about"
  /\ IF about # NULL
     THEN /\ db' = [db EXCEPT ![DB_PATH].snaps = Append(@, SnapshotRow(Username, about[1], clock))]
          /\ last' = Op("save_account_snapshot", DB_PATH, DB_PATH, Username, <<about[1]>>, TRUE, ZeroStats)
     ELSE /\ db' = db
          /\ last' = Op("fetch_failed", DB_PATH, DB_PATH, Username, <<>>, TRUE, ZeroStats)
  /\ pc' = "sleep1"
  /\ prev' = db
  /\ UNCHANGED <<clock, nsaves, nmerges, ncycles>>

\* monitor_user up to its first sleep: if about: save_account_snapshot,
\* else return.
FetchAbout(about) ==
  /\ pc = "about"
  /\ IF about # NULL
     THEN /\ db' = [db EXCEPT ![DB_PATH].snaps = Append(@, SnapshotRow(Username, about[1], clock))]
          /\ last' = Op("save_account_snapshot", DB_PATH, DB_PATH, Username, <<about[1]>>, TRUE, ZeroStats)
          /\ pc' = "sleep1"
     ELSE /\ db' = db
          /\ last' = Op("fetch_failed", DB_PATH, DB_PATH, Username, <<>>, TRUE, ZeroStats)
          /\ pc' = "idle"
  /\ prev' = db
  /\ UNCHANGED <<clock, nsaves, nmerges, ncycles>>

\* time.sleep(1), twice in monitor_user.
Sleep ==
  /\ pc \in {"sleep1", "sleep2"}
  /\ clock' = clock + 1
  /\ pc' = IF pc = "sleep1" THEN "posts" ELSE "comments"
  /\ UNCHANGED <<db, nsaves, nmerges, last, prev, ncycles>>

\* posts = fetch_user_posts(username); if posts: save_posts(username, posts).
\* An exception of save_posts leaves monitor_user, schedule.run_pending
\* and run_scheduler, which catches KeyboardInterrupt only.
FetchPosts(posts) ==
  /\ pc = "posts"
  /\ IF posts # <<>>
     THEN LET r == SaveItems("post", db[DB_PATH], Username, posts, clock)
          IN  /\ db' = [db EXCEPT ![DB_PATH] = r.data]
              /\ last' = Op("save_posts", DB_PATH, DB_PATH, Username, posts, r.ok, ZeroStats)
              /\ pc' = IF r.ok THEN "sleep2" ELSE "terminated"
     ELSE /\ db' = db
          /\ last' = Op("fetch_failed", DB_PATH, DB_PATH, Username, <<>>, TRUE, ZeroStats)
          /\ pc' = "sleep2"
  /\ prev' = db
  /\ UNCHANGED <<clock, nsaves, nmerges, ncycles>>

\* comments = fetch_user_comments(username); if comments: save_comments(...),
\* and the end of the cycle.
FetchComments(comments) ==
  /\ pc = "comments"
  /\ IF comments # <<>>
     THEN LET r == SaveItems("comment", db[DB_PATH], Username, comments, clock)
          IN  /\ db' = [db EXCEPT ![DB_PATH] = r.data]
              /\ last' = Op("save_comments", DB_PATH, DB_PATH, Username, comments, r.ok, ZeroStats)
              /\ pc' = IF r.ok THEN "idle" ELSE "terminated"
     ELSE /\ db' = db
          /\ last' = Op("fetch_failed", DB_PATH, DB_PATH, Username, <<>>, TRUE, ZeroStats)
          /\ pc' = "idle"
  /\ prev' = db
  /\ UNCHANGED <<clock, nsaves, nmerges, ncycles>>

\* while True: schedule.run_pending(); time.sleep(60) -- the iteration in
\* which the job is due and monitor_user is called again.
RunPending ==
  /\ pc = "idle"
  /\ ncycles < MaxCycles
  /\ ncycles' = ncycles + 1
  /\ clock' = clock + 1
  /\ pc' = "about"
  /\ UNCHANGED <<db, nsaves, nmerges, last, prev>>

\* except KeyboardInterrupt, in the loop of run_scheduler.
KeyboardInterrupt ==
  /\ pc = "idle"
  /\ pc' = "stopped"
  /\ UNCHANGED <<db, clock, nsaves, nmerges, last, prev, ncycles>>

NextCycle ==
  \/ \E about \in AboutResponses : FetchAbout(about)
  \/ Sleep
  \/ \E posts \in Responses(PostPayloads) : FetchPosts(posts)
  \/ \E comments \in Responses(CommentPayloads) : FetchComments(comments)
  \/ RunPending
  \/ KeyboardInterrupt

SpecCycle == Init /\ [][NextCycle]_vars

----------------------------------------------------------------------------
(* merge_data.py with its command line: merge_databases(source_path,       *)
(* target_path, output_path) on files that may be missing or may not be    *)
(* tracker databases, and an output path that may be any path.             *)

Paths == DBs \cup {"O"}

MissingFile == [EmptyData EXCEPT !.status = "missing"]

InvalidFile == [EmptyData EXCEPT !.status = "invalid"]

\* The files on disk: none, one without the schema, or a database as one
\* or two calls of save_posts leave it.
GivenFiles ==
  { MissingFile, InvalidFile, EmptyData,
    SaveItems("post", EmptyData, "u1",
              <<[id |-> Some("p1"), score |-> Some(1), upvote_ratio |-> Some(1),
                 num_comments |-> Some(3), title |-> "a", created_utc |-> 1]>>, 0).data,
    SaveItems("post", EmptyData, "u1",
              <<[id |-> Some("p2"), score |-> Some(1), upvote_ratio |-> Some(1),
                 num_comments |-> Some(3), title |-> "a", created_utc |-> 1]>>, 1).data }

\* shutil.copy(target_path, output_path): done ("ok"), or an OSError
\* before anything was written ("failed") or after the output was
\* truncated ("partial").
CopyOutcomes == {"ok", "failed", "partial"}

\* shutil.copy raises: SameFileError when both paths are one file, OSError
\* when the copy could not complete.  Mutant: the error is swallowed.
CopyRaisesNever(target, out, outcome) == FALSE

CopyRaises(target, out, outcome) == out = target \/ outcome # "ok"

HasRows(f) == f.snaps # <<>> \/ f.posts # <<>> \/ f.comments # <<>> \/ f.hist # <<>>

\* The first statement on a file without the tables raises
\* sqlite3.OperationalError (DatabaseError): the SELECT on the source, or
\* the SELECT on the target in the first iteration of a loop.
StatementRaises(source, target) ==
  source.status = "invalid" \/ (target.status = "invalid" /\ HasRows(source))

\* merge_databases(source_path, target_path, output_path): fs is the files
\* by path, output NULL or Some(path).  ok is FALSE when the function
\* returned False or raised; an exception leaves it before commit.
MergeFilesResult(fs, source, target, output, outcome) ==
  IF fs[source].status = "missing" \/ fs[target].status = "missing"
  THEN [fs |-> fs, ok |-> FALSE, stats |-> ZeroStats]
  ELSE IF output # NULL /\ CopyRaises(target, output[1], outcome)
  THEN [fs |-> IF outcome = "partial" /\ output[1] # target
               THEN [fs EXCEPT ![output[1]] = InvalidFile] ELSE fs,
        ok |-> FALSE, stats |-> ZeroStats]
  ELSE LET fs1 == IF output # NULL THEN [fs EXCEPT ![output[1]] = fs[target]] ELSE fs
           target_path == IF output # NULL THEN output[1] ELSE target
       IN  IF StatementRaises(fs1[source], fs1[target_path])
           THEN [fs |-> fs1, ok |-> FALSE, stats |-> ZeroStats]
           ELSE LET m == MergeDatabases(fs1[source], fs1[target_path])
                IN  [fs |-> [fs1 EXCEPT ![target_path] = m.data], ok |-> TRUE, stats |-> m.stats]

\* last.items holds the output path and the outcome of the copy.
MergeFiles(source, target, output, outcome) ==
  /\ nmerges < MaxMerges
  /\ LET r == MergeFilesResult(db, source, target, output, outcome)
     IN  /\ db' = r.fs
         /\ last' = Op("merge_databases", source, target, "u1", <<output, outcome>>, r.ok, r.stats)
  /\ nmerges' = nmerges + 1
  /\ prev' = db
  /\ UNCHANGED <<clock, nsaves, pc, ncycles>>

\* The passes of merge_databases in the order of the code.
PassOrder == <<"account_snapshots", "posts", "comments", "score_history">>

SourceRows(source, table) ==
  CASE table = "account_snapshots" -> source.snaps
    [] table = "posts" -> source.posts
    [] table = "comments" -> source.comments
    [] OTHER -> source.hist

\* The target's connection after the first k passes.
RECURSIVE Passes(_, _, _)
Passes(source, target, k) ==
  IF k = 0 THEN [data |-> target, stats |-> ZeroStats]
  ELSE MergeLoop(PassOrder[k], Passes(source, target, k - 1),
                 SourceRows(source, PassOrder[k]), Len(SourceRows(source, PassOrder[k])))

\* The uncommitted content of the target's connection when a statement of
\* row n + 1 of pass k raises (a table or column the file lacks, a locked
\* database, a full disk).
Uncommitted(source, target, k, n) ==
  MergeLoop(PassOrder[k], Passes(source, target, k - 1), SourceRows(source, PassOrder[k]), n).data

\* The target file after the exception: target_conn.commit() is the last
\* statement of the passes, and a connection dropped without commit rolls
\* back.  Mutant: every statement is committed as it runs.
AfterErrorAutocommit(target, uncommitted) == uncommitted

AfterError(target, uncommitted) == target

\* merge_databases stopped by an error in row n + 1 of pass k; last.items
\* holds k and n.
MergeStops(source, target, k, n) ==
  /\ nmerges < MaxMerges
  /\ db[source].status = "db" /\ db[target].status = "db"
  /\ n < Len(SourceRows(db[source], PassOrder[k]))
  /\ db' = [db EXCEPT ![target] = AfterError(db[target], Uncommitted(db[source], db[target], k, n))]
  /\ last' = Op("merge_stopped", source, target, "u1", <<k, n>>, FALSE, ZeroStats)
  /\ nmerges' = nmerges + 1
  /\ prev' = db
  /\ UNCHANGED <<clock, nsaves, pc, ncycles>>

InitFiles ==
  /\ db \in [Paths -> GivenFiles]
  /\ db["O"] \in {MissingFile, EmptyData}
  /\ clock = 0
  /\ nsaves = 0
  /\ nmerges = 0
  /\ last = Op("init", "A", "A", "u1", <<>>, TRUE, ZeroStats)
  /\ prev = db
  /\ pc = "about"
  /\ ncycles = 0

NextFiles ==
  \/ \E source \in DBs, target \in DBs, out \in {NULL} \cup { Some(p) : p \in Paths },
        outcome \in CopyOutcomes :
          MergeFiles(source, target, out, outcome)
  \/ \E source \in DBs, target \in DBs, k \in 1..Len(PassOrder), n \in 0..MaxBatch :
          MergeStops(source, target, k, n)

SpecFiles == InitFiles /\ [][NextFiles]_vars

----------------------------------------------------------------------------
(* Reading the last operation.  prev is the content of the databases       *)
(* before it, last its name, arguments and outcome.                        *)

Saved == last.op \in {"save_posts", "save_comments"} /\ last.ok

Merged == last.op = "merge"

Kind == IF last.op = "save_posts" THEN "post" ELSE "comment"

Table(t, kind) == IF kind = "post" THEN t.posts ELSE t.comments

\* The tables before and after the i-th iteration of the loop of the last save.
StepBefore(i) == LoopState(Kind, prev[last.db], last.user, last.items, i - 1, last.ts).data

StepAfter(i) == LoopState(Kind, prev[last.db], last.user, last.items, i, last.ts).data

Steps == IF Saved THEN 1..Len(last.items) ELSE {}

Exists(t, kind, id) == FindItem(Table(t, kind), id) > 0

RowOf(t, kind, id) == Table(t, kind)[FindItem(Table(t, kind), id)]

RowsOf(t, kind, id) == { k \in 1..Len(Table(t, kind)) : Table(t, kind)[k].item_id = id }

\* The score an observation carries: a payload without one counts as 0,
\* the default of the code.
ObservedScore(item) == GetDefault(item, "score", Some(0))

\* The history entries of one item, in rowid order.
HistoryOf(t, kind, id) ==
  SelectSeq(t.hist, LAMBDA h : h.item_type = kind /\ h.item_id = id)

\* The entries the i-th iteration appended to score_history.
Appended(i) == SubSeq(StepAfter(i).hist, Len(StepBefore(i).hist) + 1, Len(StepAfter(i).hist))

IsPrefix(a, b) == Len(a) <= Len(b) /\ SubSeq(b, 1, Len(a)) = a

----------------------------------------------------------------------------
(* C1..C3: the ingestion upsert.                                           *)

\* C1: an upsert of an external_id that is not yet in the ledger creates
\* exactly one item row with first_seen = last_updated = the observation
\* time, and exactly one history entry, which carries the initial score,
\* the value stored as the item's current score.
C1_FirstUpsert ==
  \A i \in Steps :
     LET id == Get(last.items[i], "id")
         b == StepBefore(i)
         a == StepAfter(i)
     IN  ~Exists(b, Kind, id) =>
           /\ Len(Table(a, Kind)) = Len(Table(b, Kind)) + 1
           /\ Cardinality(RowsOf(a, Kind, id)) = 1
           /\ RowOf(a, Kind, id).first_seen = Some(last.ts)
           /\ RowOf(a, Kind, id).last_updated = Some(last.ts)
           /\ Appended(i) = << HistRow(Kind, id, ObservedScore(last.items[i]), last.ts) >>
           /\ RowOf(a, Kind, id).score = ObservedScore(last.items[i])

\* The score of the previous observation of an item, in a database that
\* only ingestion has written: the one its last history entry recorded
\* (an entry is appended whenever the observed score differs from the
\* stored one, and timestamps do not decrease in rowid order).
PreviousScore(t, kind, id) ==
  LET h == HistoryOf(t, kind, id) IN h[Len(h)].score

\* C2: an upsert of an existing external_id whose observed score equals the
\* score of the previous observation appends no history entry and leaves
\* the current score unchanged.  Stated for databases no merge has written
\* to, where the previous observation is the last history entry.
C2_UnchangedScore ==
  nmerges = 0 =>
  \A i \in Steps :
     LET id == Get(last.items[i], "id")
         b == StepBefore(i)
         a == StepAfter(i)
     IN  (/\ Exists(b, Kind, id)
          /\ ObservedScore(last.items[i]) = PreviousScore(b, Kind, id)) =>
           /\ a.hist = b.hist
           /\ RowOf(a, Kind, id).score = RowOf(b, Kind, id).score

\* C3: an upsert of an existing external_id whose observed score differs
\* from the stored current score appends exactly one history entry, with
\* the new score, and the current score becomes the new score; no
\* iteration appends an entry in any other case but the creation of the
\* item, and none changes an entry that exists.
C3_ChangedScore ==
  \A i \in Steps :
     LET id == Get(last.items[i], "id")
         b == StepBefore(i)
         a == StepAfter(i)
         changed == Exists(b, Kind, id) /\ ObservedScore(last.items[i]) # RowOf(b, Kind, id).score
     IN  /\ changed =>
              /\ Appended(i) = << HistRow(Kind, id, ObservedScore(last.items[i]), last.ts) >>
              /\ RowOf(a, Kind, id).score = ObservedScore(last.items[i])
         /\ IsPrefix(b.hist, a.hist)
         /\ Appended(i) # <<>> => changed \/ ~Exists(b, Kind, id)
         /\ Saved /\ i = Len(last.items) => a = db[last.db]

\* A changed score was observed for an item that exists, in the second
\* iteration of a batch or in a later call.
C3_Witness ==
  /\ Saved
  /\ \E i \in Steps :
        LET id == Get(last.items[i], "id")
        IN  /\ Exists(StepBefore(i), Kind, id)
            /\ RowOf(StepBefore(i), Kind, id).score = Some(1)
            /\ ObservedScore(last.items[i]) = Some(2)
            /\ Len(db[last.db].hist) = 2

----------------------------------------------------------------------------
(* C4..C9: the merge.  After a merge, last.src is the source, last.db the  *)
(* target, prev[last.db] the target before the merge and prev[last.src]    *)
(* the source as the merge read it.                                        *)

Source == prev[last.src]

TargetBefore == prev[last.db]

TargetAfter == db[last.db]

Kinds == {"post", "comment"}

StatsName(kind) == IF kind = "post" THEN "posts" ELSE "comments"

\* The fields of a content item a later observation may overwrite.
Mutable(kind, row) ==
  IF kind = "post" THEN <<row.score, row.upvote_ratio, row.num_comments, row.last_updated>>
                   ELSE <<row.score, row.last_updated>>

\* The fields of a content item fixed at its creation.
Immutable(row) == <<row.item_id, row.username, row.content, row.created_utc, row.first_seen>>

SnapshotId(r) == <<r.username, r.timestamp>>

HistoryId(r) == <<r.item_type, r.item_id, r.timestamp>>

Range(q) == { q[i] : i \in 1..Len(q) }

\* The source is strictly newer: both timestamps present and the source's
\* the greater.
StrictlyNewer(r, t) ==
  /\ r.last_updated # NULL /\ t.last_updated # NULL
  /\ r.last_updated[1] > t.last_updated[1]

\* C4: merging the same source into the same target again inserts no row
\* and updates none, in any table, and leaves the target as it is.
C4_MergeIdempotent ==
  Merged =>
    LET again == MergeDatabases(db[last.src], TargetAfter)
    IN  /\ again.data = TargetAfter
        /\ \A tab \in DOMAIN ZeroStats :
              again.stats[tab].added = 0 /\ again.stats[tab].updated = 0

\* A first merge that inserted and updated rows.
C4_Witness ==
  /\ Merged
  /\ \E kind \in Kinds : last.stats[StatsName(kind)].updated > 0
  /\ last.stats["score_history"].added > 0

\* C5: an item in both databases with different last_updated holds, after
\* the merge, the mutable fields of the record with the greater one,
\* whichever side it came from.
C5_RecencyWins ==
  Merged =>
    \A kind \in Kinds : \A r \in Range(Table(Source, kind)) :
       Exists(TargetBefore, kind, r.item_id) =>
         LET t == RowOf(TargetBefore, kind, r.item_id)
             winner == IF r.last_updated[1] > t.last_updated[1] THEN r ELSE t
         IN  (/\ r.last_updated # NULL /\ t.last_updated # NULL
              /\ r.last_updated # t.last_updated) =>
               Mutable(kind, RowOf(TargetAfter, kind, r.item_id)) = Mutable(kind, winner)

\* The source held the newer record, with another score, and it replaced
\* the target's.
C5_Witness ==
  /\ Merged
  /\ \E kind \in Kinds : \E r \in Range(Table(Source, kind)) :
        /\ Exists(TargetBefore, kind, r.item_id)
        /\ StrictlyNewer(r, RowOf(TargetBefore, kind, r.item_id))
        /\ r.score # RowOf(TargetBefore, kind, r.item_id).score
        /\ RowOf(TargetAfter, kind, r.item_id).score = r.score

\* No two rows of a table share an identity.
UniqueIds(t) ==
  /\ \A i, j \in 1..Len(t.snaps) : SnapshotId(t.snaps[i]) = SnapshotId(t.snaps[j]) => i = j
  /\ \A i, j \in 1..Len(t.hist) : HistoryId(t.hist[i]) = HistoryId(t.hist[j]) => i = j
  /\ \A kind \in Kinds : \A i, j \in 1..Len(Table(t, kind)) :
        Table(t, kind)[i].item_id = Table(t, kind)[j].item_id => i = j

\* C6: after a merge the target holds every snapshot, history entry and
\* item of the source and of the target before it (the target's own rows
\* as they were, the source's by identity), and one row per identity.
C6_NoLossNoDuplicate ==
  Merged =>
    /\ Range(TargetBefore.snaps) \subseteq Range(TargetAfter.snaps)
    /\ Range(TargetBefore.hist) \subseteq Range(TargetAfter.hist)
    /\ \A r \in Range(Source.snaps) :
          \E x \in Range(TargetAfter.snaps) : SnapshotId(x) = SnapshotId(r)
    /\ \A r \in Range(Source.hist) :
          \E x \in Range(TargetAfter.hist) : HistoryId(x) = HistoryId(r)
    /\ \A kind \in Kinds : \A r \in Range(Table(Source, kind)) \cup Range(Table(TargetBefore, kind)) :
          Exists(TargetAfter, kind, r.item_id)
    /\ UniqueIds(TargetAfter)

\* C7: a merge leaves every snapshot and every history entry of the target
\* as it was, and the rows it adds carry identities the target did not have.
C7_ObservationsImmutable ==
  Merged =>
    /\ IsPrefix(TargetBefore.snaps, TargetAfter.snaps)
    /\ IsPrefix(TargetBefore.hist, TargetAfter.hist)
    /\ \A i \in (Len(TargetBefore.snaps) + 1)..Len(TargetAfter.snaps) :
          /\ TargetAfter.snaps[i] \in Range(Source.snaps)
          /\ \A x \in Range(TargetBefore.snaps) : SnapshotId(x) # SnapshotId(TargetAfter.snaps[i])
    /\ \A i \in (Len(TargetBefore.hist) + 1)..Len(TargetAfter.hist) :
          /\ TargetAfter.hist[i] \in Range(Source.hist)
          /\ \A x \in Range(TargetBefore.hist) : HistoryId(x) # HistoryId(TargetAfter.hist[i])

\* A source snapshot or a source history entry met a target row of its
\* identity with other values, and was skipped.
C7_Witness ==
  /\ Merged
  /\ \/ \E r \in Range(Source.snaps) : \E x \in Range(TargetBefore.snaps) :
           SnapshotId(x) = SnapshotId(r) /\ x # r
     \/ \E r \in Range(Source.hist) : \E x \in Range(TargetBefore.hist) :
           HistoryId(x) = HistoryId(r) /\ x # r
  /\ last.stats["account_snapshots"].skipped + last.stats["score_history"].skipped > 0

\* C8: a source item without a match in the target is inserted as one row
\* equal to the source's in every field, first_seen and last_updated
\* included; merging again leaves one row for it.
C8_InsertVerbatim ==
  Merged =>
    \A kind \in Kinds : \A r \in Range(Table(Source, kind)) :
       ~Exists(TargetBefore, kind, r.item_id) =>
         /\ Cardinality(RowsOf(TargetAfter, kind, r.item_id)) = 1
         /\ RowOf(TargetAfter, kind, r.item_id) = r
         /\ Cardinality(RowsOf(MergeDatabases(db[last.src], TargetAfter).data, kind, r.item_id)) = 1

\* An item seen before the time of the merge was inserted by it.
C8_Witness ==
  /\ Merged
  /\ \E kind \in Kinds : \E r \in Range(Table(Source, kind)) :
        /\ ~Exists(TargetBefore, kind, r.item_id)
        /\ Exists(TargetAfter, kind, r.item_id)
        /\ r.last_updated[1] < clock
        /\ last.stats[StatsName(kind)].added > 0

\* C9: a source item that matches a target item without being strictly
\* newer (equal, older, or a timestamp missing) leaves the target item
\* unchanged in every field and is counted as skipped.
C9_SkipLeavesTarget ==
  Merged =>
    \A kind \in Kinds :
       LET skipped == { k \in 1..Len(Table(Source, kind)) :
                          /\ Exists(TargetBefore, kind, Table(Source, kind)[k].item_id)
                          /\ ~StrictlyNewer(Table(Source, kind)[k],
                                            RowOf(TargetBefore, kind, Table(Source, kind)[k].item_id)) }
       IN  /\ \A k \in skipped :
                RowOf(TargetAfter, kind, Table(Source, kind)[k].item_id)
                  = RowOf(TargetBefore, kind, Table(Source, kind)[k].item_id)
           /\ last.stats[StatsName(kind)].skipped = Cardinality(skipped)

\* One merge skipped a source post whose last_updated is missing and a
\* source comment as old as the target's, each with another score than the
\* target's.
C9_Witness ==
  /\ Merged
  /\ \E r \in Range(Source.posts) :
        /\ Exists(TargetBefore, "post", r.item_id)
        /\ r.last_updated = NULL
        /\ RowOf(TargetBefore, "post", r.item_id).last_updated # NULL
        /\ r.score # RowOf(TargetBefore, "post", r.item_id).score
  /\ \E r \in Range(Source.comments) :
        /\ Exists(TargetBefore, "comment", r.item_id)
        /\ r.last_updated # NULL
        /\ r.last_updated = RowOf(TargetBefore, "comment", r.item_id).last_updated
        /\ r.score # RowOf(TargetBefore, "comment", r.item_id).score
  /\ last.stats["posts"].skipped > 0 /\ last.stats["comments"].skipped > 0

----------------------------------------------------------------------------
(* C10: the fields fixed at creation.                                      *)

\* C10: whatever the operation, a content item that existed before it keeps
\* its external id, account, content, created_utc and first_seen.
C10_CreationFieldsFixed ==
  \A d \in DBs : \A kind \in Kinds :
     /\ Len(Table(prev[d], kind)) <= Len(Table(db[d], kind))
     /\ \A k \in 1..Len(Table(prev[d], kind)) :
           Immutable(Table(db[d], kind)[k]) = Immutable(Table(prev[d], kind)[k])

\* An upsert by another account, with other content, rewrote the mutable
\* fields of an item that existed.
C10_Witness ==
  /\ Saved
  /\ \E i \in Steps :
        LET id == Get(last.items[i], "id")
        IN  /\ Exists(StepBefore(i), Kind, id)
            /\ RowOf(StepBefore(i), Kind, id).username # last.user
            /\ RowOf(StepBefore(i), Kind, id).content = "a"
            /\ GetDefault(last.items[i], "title", GetDefault(last.items[i], "body", "a")) = "b"
            /\ RowOf(db[last.db], Kind, id).score # RowOf(prev[last.db], Kind, id).score

----------------------------------------------------------------------------
(* C11..C13: timestamps and identities.                                    *)

\* The seconds a stored timestamp denotes.
Seconds(v) == v[1]

\* C11: whatever the operation (an ingestion upsert, a merge, an ingestion
\* after a merge that copied a timestamp of the source), no content item's
\* last_updated decreases, and first_seen <= last_updated for every item.
C11_LastUpdatedMonotone ==
  \A d \in DBs : \A kind \in Kinds :
     /\ \A k \in 1..Len(Table(prev[d], kind)) :
           Seconds(Table(prev[d], kind)[k].last_updated)
             <= Seconds(Table(db[d], kind)[k].last_updated)
     /\ \A k \in 1..Len(Table(db[d], kind)) :
           Seconds(Table(db[d], kind)[k].first_seen)
             <= Seconds(Table(db[d], kind)[k].last_updated)

\* C12: an upsert of an item that exists sets last_updated to the time of
\* the ingestion pass whether or not the score changed, and appends a
\* history entry only when it changed the item's score.
C12_TouchAlways ==
  \A i \in Steps :
     LET id == Get(last.items[i], "id")
         b == StepBefore(i)
         a == StepAfter(i)
     IN  Exists(b, Kind, id) =>
           /\ RowOf(a, Kind, id).last_updated = Some(last.ts)
           /\ Appended(i) # <<>> => RowOf(a, Kind, id).score # RowOf(b, Kind, id).score

\* An item last touched at an earlier time was observed again with the
\* score it had: no history entry, and last_updated moved.
C12_Witness ==
  /\ Saved
  /\ \E i \in Steps :
        LET id == Get(last.items[i], "id")
        IN  /\ Exists(StepBefore(i), Kind, id)
            /\ RowOf(StepBefore(i), Kind, id).score = ObservedScore(last.items[i])
            /\ RowOf(StepBefore(i), Kind, id).last_updated # Some(last.ts)
            /\ StepAfter(i).hist = StepBefore(i).hist
            /\ RowOf(db[last.db], Kind, id).last_updated = Some(last.ts)

\* C13: in a database only ingestion has written to, no two snapshots
\* share (username, timestamp) and no two history entries share
\* (item_type, item_id, timestamp), also when two observations fall on the
\* same value of the clock.
C13_UniqueObservations ==
  nmerges = 0 =>
    \A d \in DBs :
       /\ \A i, j \in 1..Len(db[d].snaps) :
             SnapshotId(db[d].snaps[i]) = SnapshotId(db[d].snaps[j]) => i = j
       /\ \A i, j \in 1..Len(db[d].hist) :
             HistoryId(db[d].hist[i]) = HistoryId(db[d].hist[j]) => i = j

----------------------------------------------------------------------------
(* C14, C15: payloads that cannot be stored.                               *)

SaveCalled == last.op \in {"save_posts", "save_comments"}

\* C14: a payload whose id is missing (null) or the empty string is
\* rejected: after the call no item row and no history entry carries it.
C14_RejectEmptyId ==
  SaveCalled =>
    \A i \in 1..Len(last.items) :
       LET id == Get(last.items[i], "id")
       IN  id \in {NULL, Some("")} =>
             /\ \A r \in Range(Table(db[last.db], Kind)) : r.item_id # id
             /\ \A h \in Range(db[last.db].hist) : h.item_id # id

\* C15: in a monitoring cycle, a payload that raises does not abort the
\* rest of its batch: every other valid payload of the list, before or
\* after it, is upserted and persisted by the call.
C15_BadItemIsolated ==
  SaveCalled =>
    \A i \in 1..Len(last.items) :
       LET id == Get(last.items[i], "id")
       IN  id \notin {NULL, Some("")} =>
             /\ Exists(db[last.db], Kind, id)
             /\ RowOf(db[last.db], Kind, id).last_updated = Some(last.ts)

----------------------------------------------------------------------------
(* C16: the scheduler.                                                     *)

\* C16: a cycle that fails (a request that failed, an exception of the
\* storage during ingestion) does not end the scheduling loop: the process
\* is never terminated by an exception.
C16_SchedulerSurvives == pc # "terminated"

----------------------------------------------------------------------------
(* C17..C19: merge_databases and its files.  After a call, last.src and    *)
(* last.db are the source and target paths, last.items the output path     *)
(* (NULL without --output) and the outcome of the copy.                    *)

MergeCalled == last.op = "merge_databases"

OutputPath == last.items[1]

CopyOutcome == last.items[2]

\* C17: when the source or the target is missing or is not a database of
\* the schema, the merge fails and writes nothing: the target and every
\* other file is as before, and no output copy exists that did not.
C17_InvalidInputNoWrite ==
  (MergeCalled /\ (prev[last.src].status # "db" \/ prev[last.db].status # "db")) =>
     /\ ~last.ok
     /\ db = prev

\* C18: with an output path, a merge that completes leaves the source and
\* the original target with the content they had, whatever the output
\* path, and writes only to the output file, which holds the merge of the
\* source into the target.
C18_CopyModeNonDestructive ==
  (MergeCalled /\ last.ok /\ OutputPath # NULL) =>
     /\ db[last.src] = prev[last.src]
     /\ db[last.db] = prev[last.db]
     /\ \A p \in Paths \ {OutputPath[1]} : db[p] = prev[p]
     /\ db[OutputPath[1]] = MergeDatabases(prev[last.src], prev[last.db]).data

\* C19: when the copy to the output path cannot complete, the merge fails
\* closed: no row is merged anywhere, the target is untouched, and no file
\* but the output (left as it was, or truncated) has changed.
C19_CopyFailureFailsClosed ==
  (/\ MergeCalled
   /\ prev[last.src].status # "missing" /\ prev[last.db].status # "missing"
   /\ OutputPath # NULL /\ CopyOutcome # "ok") =>
     /\ ~last.ok
     /\ last.stats = ZeroStats
     /\ db[last.db] = prev[last.db]
     /\ \A p \in Paths \ {OutputPath[1]} : db[p] = prev[p]
     /\ db[OutputPath[1]] \in {prev[OutputPath[1]], InvalidFile}

\* The copy of a target failed in a call whose source had rows to merge
\* into it, and the output path named another file than the target.
C19_Witness ==
  /\ MergeCalled
  /\ prev[last.src].status = "db" /\ prev[last.db].status = "db"
  /\ HasRows(prev[last.src]) /\ prev[last.src] # prev[last.db]
  /\ OutputPath = Some("O") /\ CopyOutcome = "partial"
  /\ ~last.ok
  /\ db["O"] = InvalidFile

----------------------------------------------------------------------------
(* C20: a merge repeated with the roles swapped.  After Merge(A, B), the   *)
(* second merge is merge_databases(B, A) on the files as they are.         *)

SwappedA == MergeDatabases(TargetAfter, db[last.src]).data

SwappedB == TargetAfter

SameIdentities(a, b) ==
  /\ { SnapshotId(r) : r \in Range(a.snaps) } = { SnapshotId(r) : r \in Range(b.snaps) }
  /\ { HistoryId(r) : r \in Range(a.hist) } = { HistoryId(r) : r \in Range(b.hist) }
  /\ \A kind \in Kinds :
        { r.item_id : r \in Range(Table(a, kind)) } = { r.item_id : r \in Range(Table(b, kind)) }

\* The item was in both databases before the merges and neither record
\* was strictly newer: the timestamps were equal, or one was missing.
Tied(kind, id) ==
  /\ Exists(Source, kind, id) /\ Exists(TargetBefore, kind, id)
  /\ ~StrictlyNewer(RowOf(Source, kind, id), RowOf(TargetBefore, kind, id))
  /\ ~StrictlyNewer(RowOf(TargetBefore, kind, id), RowOf(Source, kind, id))

\* C20 as stated: after merge(A into B) and merge(B into A), A and B hold
\* the same identities in every table and, for every content item, the
\* same score, derived metrics and last_updated.
C20_SwapConvergesAll ==
  (Merged /\ last.src # last.db) =>
     /\ SameIdentities(SwappedA, SwappedB)
     /\ \A kind \in Kinds : \A r \in Range(Table(SwappedA, kind)) :
           Mutable(kind, r) = Mutable(kind, RowOf(SwappedB, kind, r.item_id))

\* C20 amended: the identities converge, and so do the mutable fields of
\* every item but those that were in both databases with equal (or
\* missing) last_updated, for which each database keeps its own record.
C20_SwapConverges ==
  (Merged /\ last.src # last.db) =>
     /\ SameIdentities(SwappedA, SwappedB)
     /\ \A kind \in Kinds : \A r \in Range(Table(SwappedA, kind)) :
           IF Tied(kind, r.item_id)
           THEN /\ r = RowOf(Source, kind, r.item_id)
                /\ RowOf(SwappedB, kind, r.item_id) = RowOf(TargetBefore, kind, r.item_id)
           ELSE Mutable(kind, r) = Mutable(kind, RowOf(SwappedB, kind, r.item_id))

\* The source held the newer record of one item, another score included,
\* and an item and a snapshot the target did not have; the target held
\* rows the source did not have.
C20_Witness ==
  /\ Merged /\ last.src # last.db
  /\ \E kind \in Kinds : \E r \in Range(Table(Source, kind)) :
        /\ Exists(TargetBefore, kind, r.item_id)
        /\ StrictlyNewer(r, RowOf(TargetBefore, kind, r.item_id))
        /\ r.score # RowOf(TargetBefore, kind, r.item_id).score
  /\ Len(TargetAfter.hist) > Len(Source.hist)
  /\ Len(TargetAfter.hist) > Len(TargetBefore.hist)
  /\ SwappedA # db[last.src]

----------------------------------------------------------------------------
(* C21: a cycle interrupted and run again.  An interrupt inside the loop   *)
(* of save_posts or save_comments leaves the function before commit, and   *)
(* the store is as before the call; an interrupt after the commit leaves   *)
(* the store as the call made it.  The cycle run again calls the function  *)
(* with the same payloads at a later time.                                 *)

\* What a run leaves apart from last_updated: the items, and the history.
Content(t) ==
  [posts |-> [k \in 1..Len(t.posts) |-> [t.posts[k] EXCEPT !.last_updated = NULL]],
   comments |-> [k \in 1..Len(t.comments) |-> [t.comments[k] EXCEPT !.last_updated = NULL]],
   hist |-> t.hist]

\* The store after the save of the last cycle is run again.
RunAgain == SaveItems(Kind, db[last.db], last.user, last.items, last.ts + 1).data

\* C21: after a cycle was interrupted behind a committed save and run
\* again with the same payloads, the items and the history are those of
\* the one uninterrupted run: none is duplicated, none is missing.
C21_RerunSameContent ==
  Saved => Content(RunAgain) = Content(db[last.db])

----------------------------------------------------------------------------
(* C22, C23: the tables against each other and over time.                  *)

\* C22: every history entry refers to exactly one content item of its kind
\* and id, and every content item has at least one history entry.
C22_HistoryMatchesItems ==
  \A d \in DBs :
     /\ \A h \in Range(db[d].hist) :
           Cardinality(RowsOf(db[d], h.item_type, h.item_id)) = 1
     /\ \A kind \in Kinds : \A r \in Range(Table(db[d], kind)) :
           \E h \in Range(db[d].hist) : h.item_type = kind /\ h.item_id = r.item_id

\* A merge inserted an item the target did not have, with its history,
\* next to an item of the target that has its own.
C22_Witness ==
  /\ Merged
  /\ \E kind \in Kinds : \E r \in Range(Table(Source, kind)) :
        /\ ~Exists(TargetBefore, kind, r.item_id)
        /\ Exists(TargetAfter, kind, r.item_id)
  /\ TargetBefore.hist # <<>>
  /\ last.stats["score_history"].added > 0

\* The file is the output of the last merge and none of its inputs: a
\* new copy, not a dataset the merge was given.
FreshOutput(d) ==
  MergeCalled /\ OutputPath = Some(d) /\ d \notin {last.src, last.db}

\* C23: no operation deletes data: in every dataset the snapshots, the ids
\* of the content items and the history entries of before the operation
\* are there after it, and the snapshots are unmodified.
C23_NothingDeleted ==
  \A d \in DOMAIN db :
     ~FreshOutput(d) =>
       /\ IsPrefix(prev[d].snaps, db[d].snaps)
       /\ Range(prev[d].hist) \subseteq Range(db[d].hist)
       /\ \A kind \in Kinds :
             { r.item_id : r \in Range(Table(prev[d], kind)) }
               \subseteq { r.item_id : r \in Range(Table(db[d], kind)) }

----------------------------------------------------------------------------
(* app.py: api_karma_history, the snapshot range query of the dashboard,   *)
(* on the database the tracker writes.                                     *)

\* request.args.get('from') / ('to'): absent, or the text of a time in the
\* format of the stored timestamps.
RangeArgs == {NULL} \cup { Some(t) : t \in 0..(MaxClock + 1) }

\* request.args.get('days', 30, type=float)
Days == {0, 30}

\* ORDER BY timestamp ASC: rows of one timestamp in rowid order.
RECURSIVE OrderByTimestamp(_)
OrderByTimestamp(rows) ==
  IF rows = <<>> THEN <<>>
  ELSE LET m == Min({ Seconds(rows[i].timestamp) : i \in 1..Len(rows) })
       IN  SelectSeq(rows, LAMBDA r : Seconds(r.timestamp) = m)
             \o OrderByTimestamp(SelectSeq(rows, LAMBDA r : Seconds(r.timestamp) # m))

\* WHERE username = ? AND timestamp BETWEEN ? AND ?
InRange(rows, username, from_date, to_date) ==
  SelectSeq(rows, LAMBDA r : /\ r.username = username
                             /\ Seconds(from_date) <= Seconds(r.timestamp)
                             /\ Seconds(r.timestamp) <= Seconds(to_date))

\* WHERE username = ? AND timestamp >= datetime('now', '-<hours> hours'),
\* hours = int(days * 24).
InWindow(rows, username, days, now) ==
  SelectSeq(rows, LAMBDA r : /\ r.username = username
                             /\ Seconds(r.timestamp) >= now - (days * 24) * 3600)

\* The rows api_karma_history returns as labels and karma series.
KarmaHistory(t, username, from_date, to_date, days, now) ==
  IF Truthy(from_date) /\ Truthy(to_date)
  THEN OrderByTimestamp(InRange(t.snaps, username, from_date, to_date))
  ELSE OrderByTimestamp(InWindow(t.snaps, username, days, now))

\* GET /api/karma/<username>?from=&to=&days=  -- last.items holds the
\* arguments, last.stats the rows of the response.
ApiKarmaHistory(username, from_date, to_date, days) ==
  /\ last' = Op("api_karma_history", DB_PATH, DB_PATH, username, <<from_date, to_date, days>>, TRUE,
               KarmaHistory(db[DB_PATH], username, from_date, to_date, days, clock))
  /\ prev' = db
  /\ UNCHANGED <<db, clock, nsaves, nmerges, pc, ncycles>>

NextQuery ==
  \/ \E u \in Users, data \in AboutPayloads : SaveAccountSnapshot(DB_PATH, u, data)
  \/ Tick
  \/ \E u \in Users, from_date \in RangeArgs, to_date \in RangeArgs, days \in Days :
        ApiKarmaHistory(u, from_date, to_date, days)

SpecQuery == Init /\ [][NextQuery]_vars

\* C24: with an explicit range the query returns exactly the snapshots of
\* the account with from <= timestamp < to (a snapshot stamped at 'to' is
\* not returned), in ascending order of timestamp.
C24_HalfOpenRange ==
  (last.op = "api_karma_history" /\ last.items[1] # NULL /\ last.items[2] # NULL) =>
     /\ Range(last.stats) =
          { r \in Range(db[DB_PATH].snaps) :
              /\ r.username = last.user
              /\ Seconds(last.items[1]) <= Seconds(r.timestamp)
              /\ Seconds(r.timestamp) < Seconds(last.items[2]) }
     /\ \A i, j \in 1..Len(last.stats) :
           i < j => Seconds(last.stats[i].timestamp) <= Seconds(last.stats[j].timestamp)

----------------------------------------------------------------------------
(* C25..C27: what a merge reports, and what it leaves.                     *)

SourceTable(tab) ==
  CASE tab = "account_snapshots" -> Source.snaps
    [] tab = "posts" -> Source.posts
    [] tab = "comments" -> Source.comments
    [] OTHER -> Source.hist

TableLen(t, tab) ==
  CASE tab = "account_snapshots" -> Len(t.snaps)
    [] tab = "posts" -> Len(t.posts)
    [] tab = "comments" -> Len(t.comments)
    [] OTHER -> Len(t.hist)

\* C25: for every table added + updated + skipped is the number of rows of
\* the source table and added is the growth of the target table; a source
\* snapshot whose (username, timestamp) the target has adds no row and is
\* counted as a skip.
C25_CountsAddUp ==
  Merged =>
    /\ \A tab \in DOMAIN ZeroStats :
          /\ last.stats[tab].added + last.stats[tab].updated + last.stats[tab].skipped
               = Len(SourceTable(tab))
          /\ last.stats[tab].added = TableLen(TargetAfter, tab) - TableLen(TargetBefore, tab)
    /\ last.stats["account_snapshots"].skipped
         >= Cardinality({ k \in 1..Len(Source.snaps) :
                            \E x \in Range(TargetBefore.snaps) :
                               SnapshotId(x) = SnapshotId(Source.snaps[k]) })
    /\ (\A r \in Range(Source.snaps) :
           \E x \in Range(TargetBefore.snaps) : SnapshotId(x) = SnapshotId(r)) =>
          /\ last.stats["account_snapshots"].added = 0
          /\ TargetAfter.snaps = TargetBefore.snaps

\* The source's one snapshot has the identity of a snapshot of the target,
\* another database: no row added, one skip.
C25_Witness ==
  /\ Merged /\ last.src # last.db
  /\ Len(Source.snaps) = 1
  /\ \E x \in Range(TargetBefore.snaps) : SnapshotId(x) = SnapshotId(Source.snaps[1])
  /\ last.stats["account_snapshots"].skipped = 1
  /\ last.stats["account_snapshots"].added = 0

\* The history entries of an item with the greatest timestamp.
LatestEntries(t, kind, id) ==
  LET H == { h \in Range(t.hist) : h.item_type = kind /\ h.item_id = id }
  IN  { h \in H : \A g \in H : Seconds(g.timestamp) <= Seconds(h.timestamp) }

\* C26: in every state each item's current score is the score of its
\* history entry with the greatest timestamp.
C26_ScoreIsLatestEntry ==
  \A d \in DBs : \A kind \in Kinds : \A r \in Range(Table(db[d], kind)) :
     /\ LatestEntries(db[d], kind, r.item_id) # {}
     /\ \A h \in LatestEntries(db[d], kind, r.item_id) : h.score = r.score

\* C27: a merge that stops with an error anywhere in its passes leaves the
\* target without any of its inserts or updates.
C27_AllOrNothing ==
  last.op = "merge_stopped" => db[last.db] = prev[last.db]

\* The error came after the merge had inserted rows of an earlier pass.
C27_Witness ==
  /\ last.op = "merge_stopped"
  /\ last.items[1] = 4
  /\ Uncommitted(prev[last.src], prev[last.db], last.items[1], last.items[2]) # prev[last.db]

\* A snapshot of the tracker's database was written at second t.
SnapshotAt(t) ==
  \E i \in 1..Len(db[DB_PATH].snaps) : db[DB_PATH].snaps[i].timestamp = Some(t)

\* The seconds at which rows of a content table or their history entries
\* were written.
WrittenAt(kind) ==
  { Seconds(r.first_seen) : r \in Range(Table(db[DB_PATH], kind)) }
    \cup { Seconds(r.last_updated) : r \in Range(Table(db[DB_PATH], kind)) }
    \cup { Seconds(h.timestamp) : h \in { e \in Range(db[DB_PATH].hist) : e.item_type = kind } }

\* The posts fetch of the running cycle came back empty or failed: the
\* cycle's snapshot is one second old, which only happens between the first
\* sleep and the second.
PostsFetchFailed ==
  /\ last.op = "fetch_failed"
  /\ db[DB_PATH].snaps # <<>>
  /\ clock = Seconds(db[DB_PATH].snaps[Len(db[DB_PATH].snaps)].timestamp) + 1

\* C28: in a cycle the snapshot is written first, the posts after the first
\* sleep and the comments after the second, so whatever was written to the
\* content tables belongs to a cycle that wrote its snapshot before (a cycle
\* whose profile fetch failed writes nothing); and after an empty or failed
\* posts fetch the cycle is on its way to the comments.
C28_CycleOrder ==
  /\ \A t \in WrittenAt("post") : SnapshotAt(t - 1)
  /\ \A t \in WrittenAt("comment") : SnapshotAt(t - 2) /\ t - 1 \notin WrittenAt("comment")
  /\ last.op = "fetch_failed" /\ pc = "idle" => db = prev
  /\ PostsFetchFailed => pc = "sleep2"

\* Comments were ingested in a cycle whose posts fetch had come back empty.
C28_Witness ==
  /\ last.op = "save_comments" /\ last.ok
  /\ clock \in WrittenAt("comment")
  /\ clock - 1 \notin WrittenAt("post")
  /\ SnapshotAt(clock - 2)
====
